---------------------------- MODULE Spec2Model ----------------------------
(***************************************************************************)
(* A model of src/new.py: the market watch list (active_markets), the       *)
(* threads that insert into it, the scheduler monitor_active_markets with   *)
(* its window of worker threads, and the decision taken by monitor_market.  *)
(*                                                                          *)
(* Python lists hold references.  A market dict is an object on `heap`; the *)
(* list active_markets and its shallow copy copied_markets hold object      *)
(* keys.  list.insert / list.pop / list.append / len are single steps; a    *)
(* `for ... in enumerate(active_markets)` loop takes one step per           *)
(* iteration, and nothing in the source keeps another thread from running   *)
(* between two steps (there is no lock anywhere in src/new.py).             *)
(*                                                                          *)
(* start_iso_date is a pair <<year, t>>: the year digits of the ISO string  *)
(* and the rest of the timestamp as a position inside the year.  The only   *)
(* operations of the source on it are the order of datetime.fromisoformat   *)
(* and str.replace("2024", "2050").                                         *)
(***************************************************************************)
EXTENDS Integers, Sequences, FiniteSets, TLC

\* ---------------------------------------------------------------- bounds
\* src/new.py:44 sets WATCHLIST_LIMIT = 200; the model keeps the code and
\* scales the capacity down.
WATCHLIST_LIMIT == 2
\* one more market than the watch list can hold
Ids == 1..(WATCHLIST_LIMIT + 1)
Years == {2023, 2024}
\* a start_iso_date: a year, and early (1) or late (2) in it
Dates == Years \X {1, 2}

\* An object key is <<condition_id, n>>: the n-th live dict made for that
\* market.  Two dicts of one market are two objects.
NoObj == <<0, 0>>

\* ------------------------------------------------------------- variables
VARIABLES
    active_markets,   \* src/new.py:49, a sequence of object keys
    heap,             \* object key -> the market dict
    promoted,         \* history: keys given priority (add_priority / 2050 appends)
    catalog,          \* the exchange: condition_id -> accepting_order_timestamp
    market_state,     \* the exchange: condition_id -> "active" | "closed"
    copied_markets,   \* src/new.py:360, the scheduler's shallow copy
    todo,             \* thread -> the markets its loop has still to visit
    pc,               \* thread -> position in its code
    loc,              \* thread -> its local variables
    next_item,        \* how many items of copied_markets have a worker
    recorded,         \* history: condition_id -> calls of record_trade
    fills,            \* the exchange: condition_id -> the account's fill history
    winner,           \* the exchange: condition_id -> tokens[1]["winner"] once resolved
    outcome           \* history: the arguments of the last record_trade

watchVars == <<active_markets, heap, promoted, catalog, market_state,
               copied_markets, todo, pc, loc, next_item, recorded, fills,
               winner, outcome>>

\* One cycle of monitor_active_markets as the exchange sees it.  Money is
\* counted in 1/100 cent (1e-4 USDC), prices of the book in 1/10 cent, limit
\* prices in cents and sizes in 1/100 share, so that the arithmetic of the
\* source is exact on integers.
VARIABLES
    total_position_size,  \* src/new.py:136-141, in cents
    balance_allowance,    \* src/new.py:143, in cents
    portfolio_balance,    \* src/new.py:354-358, the workers' argument, in 1/100 cent
    cash_balance,         \* src/new.py:354, in 1/100 cent
    balance_fetched,      \* src/new.py:106-113: client.get_balance_allowance returned
    tpc,                  \* where the cycle is: "budget", "sweep", "dead"
    handled,              \* workers of this cycle that have returned
    spent,                \* history: sum of price*size of this cycle's buy orders
    n_buys,               \* history: number of buy orders of this cycle
    last                  \* history: what the worker that returned last did

tradeVars == <<total_position_size, balance_allowance, portfolio_balance,
               cash_balance, balance_fetched, tpc, handled, spent, n_buys,
               last>>

\* The window accounting of monitor_active_markets and its workers.
VARIABLES
    free_window_size,  \* src/new.py:59, the global counter
    spc,               \* the scheduler's position in monitor_active_markets
    n_items,           \* len(copied_markets) of the cycle
    init_size,         \* src/new.py:361
    index,             \* src/new.py:367
    sreg,              \* the value the scheduler read for `free_window_size -= 1`
    started,           \* worker threads created so far
    cycle_base,              \* worker threads created before this cycle
    wstate,            \* worker thread -> "none", "run", "loaded", "done", "failed"
    wreg               \* the value a worker read for `free_window_size += 1`

poolVars == <<free_window_size, spc, n_items, init_size, index, sreg,
              started, cycle_base, wstate, wreg>>

\* One call of get_polymarket_markets against a service that fails for a
\* while, or for good.
VARIABLES
    retry_file,       \* "new" for src/new.py:89-103, "run" for src/run.py:63-76
    service,          \* the exchange: does it fail for good, and how often still
    rpc,              \* the caller's position in get_polymarket_markets
    attempts,         \* history: calls of requests.get made by this call
    reply,            \* what the last requests.get gave
    slept             \* seconds of the last time.sleep

retryVars == <<retry_file, service, rpc, attempts, reply, slept>>

vars == <<watchVars, tradeVars, poolVars, retryVars>>

\* src/new.py:40-43 and 47
MIN_BID == 10
MAX_BID == 55
PORTFOLIO_PERCENT == 1
SPREAD_LIMIT == 3
\* SELL_TRESHOLD = 0.95, in cents
SELL_TRESHOLD == 95

\* snapshot items one cycle hands to workers
MaxItems == 2

\* src/new.py:45 sets WINDOW_SIZE = 25; scaled down like the capacity
WINDOW_SIZE == 2
\* worker threads the scheduler creates in a run, over all its cycles
MaxThreads == 5

\* ------------------------------------------------------- dates and lists
\* datetime.fromisoformat(a) < datetime.fromisoformat(b)
DateLT(a, b) == a[1] < b[1] \/ (a[1] = b[1] /\ a[2] < b[2])

\* s.replace("2024", "2050") on a start_iso_date
Replace2024(d) == IF d[1] = 2024 THEN <<2050, d[2]>> ELSE d

\* list.insert(i, x) with a 0-based i; Python clamps i to len(list)
InsertAt(s, i, x) ==
    LET j == IF i > Len(s) THEN Len(s) ELSE i
    IN  SubSeq(s, 1, j) \o <<x>> \o SubSeq(s, j + 1, Len(s))

\* list.pop(i) with a 0-based i < len(list): the list that is left
RemoveAt(s, i) == SubSeq(s, 1, i) \o SubSeq(s, i + 2, Len(s))

Range(s) == {s[k] : k \in 1..Len(s)}

Min(S) == CHOOSE x \in S : \A y \in S : x <= y

\* --------------------------------------------------------------- threads
\* "seq" runs the watch-list routines one call at a time; the others are the
\* threads started at src/new.py:516-534 and the workers of the scheduler.
Discoverers == {"new", "init", "pos", "ord"}
\* the workers of a sweep take their steps one worker after the other here
Workers == {"w1"}
Threads == {"seq"} \cup Discoverers \cup Workers
\* threads whose loop comes back to a market it has already handled
\* (`while True` at src/new.py:380; "seq" stands for any caller)
Repeats == {"seq"}

InitLoc ==
    [op |-> "none", mid |-> 0, i |-> 0, obj |-> NoObj, caller |-> "none",
     market |-> NoObj, pre |-> <<>>, earliest |-> FALSE]

\* the condition ids in the list, in list order
IdsOf(list, h) == [k \in 1..Len(list) |-> h[list[k]].condition_id]

\* object keys some reference still reaches
Live(list, snap, l) ==
    (Range(list) \cup Range(snap)
        \cup {l[t].obj : t \in Threads} \cup {l[t].market : t \in Threads})
    \ {NoObj}

\* a key for a new dict of market m: the least one no live object has
NewKey(m) ==
    <<m, Min({n \in 1..(Cardinality(DOMAIN heap) + 1) : <<m, n>> \notin DOMAIN heap})>>

\* the heap with object k set to v, other objects kept
HeapPut(h, k, v) == [x \in DOMAIN h \cup {k} |-> IF x = k THEN v ELSE h[x]]

\* The frame of a watch-list step: objects no reference reaches are dropped.
Collect(h, prom) ==
    LET live == Live(active_markets', copied_markets', loc')
    IN  /\ heap' = [k \in live |-> h[k]]
        /\ promoted' = prom \cap live

Goto(th, label) == pc' = [pc EXCEPT ![th] = label]

\* the dict literal of src/new.py:265-270 and 393-398
NewMarket(m) == [condition_id |-> m, start_iso_date |-> catalog[m]]
\* the dict literal of src/new.py:445-450 and 482-487
NewPriorityMarket(m) ==
    [condition_id |-> m, start_iso_date |-> Replace2024(catalog[m])]

\* th's locals once its routine has returned
Returned(th) == [InitLoc EXCEPT !.market = loc[th].market]

\* One step of thread th on the watch list: the list and th's locals after
\* it, th's next position, and the heap h before unreachable objects go.
Step(th, label, list, l, h, prom) ==
    /\ active_markets' = list
    /\ loc' = [loc EXCEPT ![th] = l]
    /\ Goto(th, label)
    /\ UNCHANGED <<catalog, market_state, copied_markets, next_item, recorded,
                   fills, winner, outcome>>
    /\ UNCHANGED <<tradeVars, poolVars, retryVars>>
    /\ Collect(h, prom)

Visited(th, m) ==
    todo' = IF th \in Repeats THEN todo ELSE [todo EXCEPT ![th] = @ \ {m}]

\* ------------------------------------------------------------ add_market
\* One market of a catalog page: the filter and the membership test of
\* src/new.py:264 / 389, then the call of add_market with a new dict.
Discover(th, m) ==
    /\ pc[th] = "idle"
    /\ m \in todo[th]
    /\ Visited(th, m)
    /\ IF market_state[m] = "active"
          /\ m \notin Range(IdsOf(active_markets, heap))
       THEN Step(th, "am_scan", active_markets,
                 [InitLoc EXCEPT
                    !.op = "add_market", !.mid = m, !.obj = NewKey(m),
                    !.pre = IF th = "seq" THEN IdsOf(active_markets, heap) ELSE <<>>,
                    !.earliest =
                        /\ th = "seq"
                        /\ \A k \in Range(active_markets) :
                              DateLT(catalog[m], heap[k].start_iso_date)],
                 HeapPut(heap, NewKey(m), NewMarket(m)), promoted)
       ELSE Step(th, "idle", active_markets, loc[th], heap, promoted)

\* src/new.py:78-80, one iteration of the for loop: the next element, and
\* the comparison of the two start dates
AddMarketScan(th) ==
    /\ pc[th] = "am_scan"
    /\ UNCHANGED todo
    /\ LET i == loc[th].i
       IN  IF i < Len(active_markets)
           THEN IF DateLT(heap[loc[th].obj].start_iso_date,
                          heap[active_markets[i + 1]].start_iso_date)
                THEN Step(th, "am_insert", active_markets, loc[th], heap, promoted)
                ELSE Step(th, "am_scan", active_markets,
                          [loc[th] EXCEPT !.i = i + 1], heap, promoted)
           ELSE Step(th, "am_append", active_markets, loc[th], heap, promoted)

\* src/new.py:81-82, active_markets.insert(i, new_market); break
AddMarketInsert(th) ==
    /\ pc[th] = "am_insert"
    /\ UNCHANGED todo
    /\ Step(th, "ev_check", InsertAt(active_markets, loc[th].i, loc[th].obj),
            [loc[th] EXCEPT !.obj = NoObj, !.i = 0], heap, promoted)

\* src/new.py:83-84, the for loop's else: active_markets.append(new_market)
AddMarketAppend(th) ==
    /\ pc[th] = "am_append"
    /\ UNCHANGED todo
    /\ Step(th, "ev_check", Append(active_markets, loc[th].obj),
            [loc[th] EXCEPT !.obj = NoObj, !.i = 0], heap, promoted)

\* `while len(active_markets) > WATCHLIST_LIMIT`, src/new.py:86, 451, 488
EvictCheck(th) ==
    /\ pc[th] = "ev_check"
    /\ UNCHANGED todo
    /\ IF Len(active_markets) > WATCHLIST_LIMIT
       THEN Step(th, "ev_pop", active_markets, loc[th], heap, promoted)
       ELSE Step(th, "idle", active_markets, Returned(th), heap, promoted)

\* a pop() that takes the last element instead of the first
PopBack(list) == SubSeq(list, 1, Len(list) - 1)

\* what `active_markets.pop(0)` leaves of the list
PopFront(list) == Tail(list)

\* `active_markets.pop(0)`, src/new.py:87, 452, 489; IndexError on an empty list
EvictPop(th) ==
    /\ pc[th] = "ev_pop"
    /\ UNCHANGED todo
    /\ IF active_markets = <<>>
       THEN Step(th, "crashed", active_markets, loc[th], heap, promoted)
       ELSE Step(th, "ev_check", PopFront(active_markets), loc[th], heap, promoted)

\* ---------------------------------------------------------- add_priority
\* where the caller goes on once add_priority has returned `result`:
\* src/new.py:481-490 (monitor_positions), 440-455
\* (initialize_markets_with_active_orders), 345-346 (monitor_market)
AfterPriority(caller, result) ==
    CASE caller = "pos" -> IF result THEN "idle" ELSE "prio_append"
      [] caller = "ord" -> IF result THEN "idle" ELSE "ord_get_market"
      [] caller = "worker" -> "w_sell"
      [] OTHER -> "idle"

\* a call of add_priority(m) by th
CallPriority(th, m, caller) ==
    Step(th, "ap_scan", active_markets,
         [InitLoc EXCEPT !.op = "add_priority", !.mid = m, !.caller = caller,
                         !.market = loc[th].market],
         heap, promoted)

\* src/new.py:283-284, one iteration; src/new.py:289 when the loop ends
AddPriorityScan(th) ==
    /\ pc[th] = "ap_scan"
    /\ UNCHANGED todo
    /\ LET i == loc[th].i
       IN  IF i < Len(active_markets)
           THEN IF heap[active_markets[i + 1]].condition_id = loc[th].mid
                THEN Step(th, "ap_pop", active_markets, loc[th], heap, promoted)
                ELSE Step(th, "ap_scan", active_markets,
                          [loc[th] EXCEPT !.i = i + 1], heap, promoted)
           ELSE Step(th, AfterPriority(loc[th].caller, FALSE), active_markets,
                     IF AfterPriority(loc[th].caller, FALSE) = "idle"
                     THEN Returned(th) ELSE [loc[th] EXCEPT !.i = 0],
                     heap, promoted)

\* src/new.py:285, market = active_markets.pop(i); IndexError past the end
AddPriorityPop(th) ==
    /\ pc[th] = "ap_pop"
    /\ UNCHANGED todo
    /\ LET i == loc[th].i
       IN  IF i < Len(active_markets)
           THEN Step(th, "ap_mutate", RemoveAt(active_markets, i),
                     [loc[th] EXCEPT !.obj = active_markets[i + 1], !.i = 0],
                     heap, promoted)
           ELSE Step(th, "crashed", active_markets, loc[th], heap, promoted)

\* src/new.py:286, the popped dict's start_iso_date is rewritten in place
AddPriorityMutate(th) ==
    /\ pc[th] = "ap_mutate"
    /\ UNCHANGED todo
    /\ LET k == loc[th].obj
       IN  Step(th, "ap_append", active_markets, loc[th],
                [heap EXCEPT ![k].start_iso_date = Replace2024(@)], promoted)

\* where add_priority puts the popped dict back: active_markets.append(market)
Reinsert(list, k) == Append(list, k)

\* src/new.py:287-288, append and return True
AddPriorityAppend(th) ==
    /\ pc[th] = "ap_append"
    /\ UNCHANGED todo
    /\ Step(th, AfterPriority(loc[th].caller, TRUE),
            Reinsert(active_markets, loc[th].obj),
            IF AfterPriority(loc[th].caller, TRUE) = "idle"
            THEN Returned(th) ELSE [loc[th] EXCEPT !.obj = NoObj],
            heap, promoted \cup {loc[th].obj})

\* a promotion on its own, as monitor_market issues it after a fill
Promote(th, m) ==
    /\ pc[th] = "idle"
    /\ UNCHANGED todo
    /\ CallPriority(th, m, "seq")

\* ------------------------------------------------------ monitor_positions
\* src/new.py:478-481, one market of `shares`: get_market, the filter, and
\* the call of add_priority
Position(th, m) ==
    /\ pc[th] = "idle"
    /\ m \in todo[th]
    /\ Visited(th, m)
    /\ IF market_state[m] = "active"
       THEN CallPriority(th, m, "pos")
       ELSE Step(th, "idle", active_markets, loc[th], heap, promoted)

\* src/new.py:482-487 and 445-450, the append of a new dict dated 2050
PriorityAppend(th) ==
    /\ pc[th] = "prio_append"
    /\ UNCHANGED todo
    /\ LET k == NewKey(loc[th].mid)
       IN  Step(th, "ev_check", Append(active_markets, k), loc[th],
                HeapPut(heap, k, NewPriorityMarket(loc[th].mid)),
                promoted \cup {k})

\* ------------------------------- initialize_markets_with_active_orders
\* src/new.py:439-440, one open order: the call of add_priority
OpenOrder(th, m) ==
    /\ pc[th] = "idle"
    /\ m \in todo[th]
    /\ Visited(th, m)
    /\ CallPriority(th, m, "ord")

\* src/new.py:443-444, client.get_market inside the try; the market's
\* state is not looked at, and an exception skips the order (453-454)
OrderGetMarket(th) ==
    /\ pc[th] = "ord_get_market"
    /\ UNCHANGED todo
    /\ \E ok \in BOOLEAN :
          Step(th, IF ok THEN "prio_append" ELSE "idle", active_markets,
               IF ok THEN loc[th] ELSE Returned(th), heap, promoted)

\* ------------------------------------------- the scheduler and its workers
\* src/new.py:360, copied_markets = active_markets.copy(): a new list of the
\* same dicts.  The next cycle begins once every item of the last one has
\* had its worker and the workers have returned.
Snapshot ==
    /\ \A w \in Workers : pc[w] = "idle"
    /\ next_item = Len(copied_markets)
    /\ copied_markets' = active_markets
    /\ next_item' = 0
    /\ UNCHANGED <<active_markets, catalog, market_state, todo, pc, loc, recorded,
                   fills, winner, outcome>>
    /\ UNCHANGED <<tradeVars, poolVars, retryVars>>
    /\ Collect(heap, promoted)

\* src/new.py:362-365 and 369-373: the next item of the copy goes to a new
\* worker thread, args=(copied_markets[index], portfolio_balance)
Dispatch(w) ==
    /\ pc[w] = "idle"
    /\ next_item < Len(copied_markets)
    /\ next_item' = next_item + 1
    /\ loc' = [loc EXCEPT ![w] =
                 [InitLoc EXCEPT !.op = "check_resolved",
                                 !.market = copied_markets[next_item + 1],
                                 !.mid = heap[copied_markets[next_item + 1]].condition_id]]
    /\ Goto(w, "cr_get")
    /\ UNCHANGED <<active_markets, catalog, market_state, copied_markets, todo,
                   recorded, fills, winner, outcome>>
    /\ UNCHANGED <<tradeVars, poolVars, retryVars>>
    /\ Collect(heap, promoted)

\* the exchange resolves a market
Resolve(m) ==
    /\ market_state[m] = "active"
    /\ market_state' = [market_state EXCEPT ![m] = "closed"]
    /\ UNCHANGED <<active_markets, heap, promoted, catalog, copied_markets,
                   todo, pc, loc, next_item, recorded, fills, winner, outcome>>
    /\ UNCHANGED <<tradeVars, poolVars, retryVars>>

\* src/new.py:410-413, client.get_market and the test of active and closed;
\* on True monitor_market goes on to is_in_watchlist
CheckGetMarket(w) ==
    /\ pc[w] = "cr_get"
    /\ UNCHANGED todo
    /\ IF market_state[loc[w].mid] = "active"
       THEN Step(w, "w_watch", active_markets, loc[w], heap, promoted)
       ELSE Step(w, "cr_scan", active_markets, loc[w], heap, promoted)

\* src/new.py:414-415, one iteration of the for loop
CheckScan(w) ==
    /\ pc[w] = "cr_scan"
    /\ UNCHANGED todo
    /\ LET i == loc[w].i
       IN  IF i < Len(active_markets)
           THEN IF heap[active_markets[i + 1]].condition_id = loc[w].mid
                THEN Step(w, "cr_pop", active_markets, loc[w], heap, promoted)
                ELSE Step(w, "cr_scan", active_markets,
                          [loc[w] EXCEPT !.i = i + 1], heap, promoted)
           ELSE Step(w, "cr_bet", active_markets, [loc[w] EXCEPT !.i = 0],
                     heap, promoted)

\* src/new.py:416-417, active_markets.pop(i); break
CheckPop(w) ==
    /\ pc[w] = "cr_pop"
    /\ UNCHANGED todo
    /\ LET i == loc[w].i
       IN  IF i < Len(active_markets)
           THEN Step(w, "cr_bet", RemoveAt(active_markets, i),
                     [loc[w] EXCEPT !.i = 0], heap, promoted)
           ELSE Step(w, "crashed", active_markets, loc[w], heap, promoted)

\* src/new.py:199-228, what get_bet_on_market returns: None (here <<>>) when
\* client.get_trades raises or lists no trade, else total_bet and
\* shares_bought summed over the CONFIRMED trades of the account
NoTrades == <<>>
get_bet_on_market(m, api_ok) == IF api_ok THEN fills[m] ELSE NoTrades

\* src/new.py:428-431
ProfitLoss(isWin, total_bet, shares_bought) ==
    IF isWin THEN shares_bought - total_bet ELSE 0 - total_bet

NoOutcome == [condition_id |-> 0, isWin |-> FALSE, no_shares_bought |-> 0,
              total_bet |-> 0, PnL |-> 0]

\* src/new.py:418-435: the winner is published, get_bet_on_market answers;
\* with a result avg_price = total_bet / shares_bought is computed
\* (ZeroDivisionError when shares_bought is 0) and record_trade is called;
\* check_resolved returns False and monitor_market returns (296-298)
CheckRecord(w) ==
    /\ pc[w] = "cr_bet"
    /\ \E api_ok \in BOOLEAN :
          LET m == loc[w].mid
              result == get_bet_on_market(m, api_ok)
          IN  IF result = NoTrades
              THEN /\ loc' = [loc EXCEPT ![w] = InitLoc]
                   /\ Goto(w, "idle")
                   /\ UNCHANGED <<recorded, outcome>>
              ELSE IF result[2] = 0
              THEN /\ loc' = [loc EXCEPT ![w].op = "ZeroDivisionError"]
                   /\ Goto(w, "crashed")
                   /\ UNCHANGED <<recorded, outcome>>
              ELSE /\ loc' = [loc EXCEPT ![w] = InitLoc]
                   /\ Goto(w, "idle")
                   /\ recorded' = [recorded EXCEPT ![m] = @ + 1]
                   /\ outcome' =
                         [condition_id |-> m, isWin |-> winner[m],
                          no_shares_bought |-> result[2], total_bet |-> result[1],
                          PnL |-> ProfitLoss(winner[m], result[1], result[2])]
    /\ UNCHANGED <<active_markets, catalog, market_state, copied_markets, todo,
                   next_item, fills, winner>>
    /\ UNCHANGED <<tradeVars, poolVars, retryVars>>
    /\ Collect(heap, promoted)

\* src/new.py:299-345: is_in_watchlist looks for the item's condition_id in
\* active_markets; a worker whose buy order filled calls add_priority
WorkerWatch(w) ==
    /\ pc[w] = "w_watch"
    /\ UNCHANGED todo
    /\ IF loc[w].mid \in Range(IdsOf(active_markets, heap))
       THEN \E filled \in BOOLEAN :
              IF filled
              THEN CallPriority(w, loc[w].mid, "worker")
              ELSE Step(w, "idle", active_markets, InitLoc, heap, promoted)
       ELSE Step(w, "idle", active_markets, InitLoc, heap, promoted)

\* src/new.py:346-348, create_sell_order and the return
WorkerSell(w) ==
    /\ pc[w] = "w_sell"
    /\ UNCHANGED todo
    /\ Step(w, "idle", active_markets, InitLoc, heap, promoted)

\* the steps of a worker outside add_priority
WorkerStep(w) ==
    \/ CheckGetMarket(w)
    \/ CheckScan(w)
    \/ CheckPop(w)
    \/ CheckRecord(w)
    \/ WorkerWatch(w)
    \/ WorkerSell(w)

\* the steps inside add_market and add_priority
CallStep(th) ==
    \/ AddMarketScan(th)
    \/ AddMarketInsert(th)
    \/ AddMarketAppend(th)
    \/ EvictCheck(th)
    \/ EvictPop(th)
    \/ AddPriorityScan(th)
    \/ AddPriorityPop(th)
    \/ AddPriorityMutate(th)
    \/ AddPriorityAppend(th)

\* the steps of the appends that follow a failed add_priority
AppendStep(th) ==
    \/ PriorityAppend(th)
    \/ OrderGetMarket(th)

\* ======================================================= the decision
\* round(value, 2): to the nearest hundredth
round_to_2_decimals(num, den) == (100 * num + den \div 2) \div den

\* int(value * 100) / 100.0 for a value num/den >= 0, in hundredths; the
\* quotient is taken exactly (a double quotient can fall just below a whole
\* number of hundredths, and the result is then one hundredth less)
truncate_to_2_decimals(num, den) == (100 * num) \div den

\* the budget without `if portfolio_balance > cash_balance`
UnclampedBudget(position, cash) == (position + cash) * PORTFOLIO_PERCENT

\* src/new.py:355-358: the percent scaling and the clamp to the cash balance.
\* position and cash in cents, the result in 1/100 cent.
EffectiveBudget(position, cash) ==
    LET scaled == (position + cash) * PORTFOLIO_PERCENT
    IN  IF scaled > 100 * cash THEN 100 * cash ELSE scaled

\* the budget handed out whole, whatever is already bet on the market
WholeBudget(budget, bet) == budget

\* src/new.py:321
AvailableBalance(budget, bet) == budget - bet

\* src/new.py:331-332: the best bid and ask in 1/10 cent; an empty side reads
\* 100.0 (bids) and 0.0 (asks)
NoBids == 100000
NoAsks == 0

\* ---------------------------------------------------- prices as floats
\* float("0.29") is the double nearest to 0.29.  A price of n/1000 lies in
\* [2^-j, 2^-(j-1)) for j = Binade(n), its double is a multiple of 2^-(j+52),
\* and the remainder of n * 2^(j+52) by 1000 says how far the double is from
\* n/1000 and on which side.
RECURSIVE Pow2(_)
Pow2(k) == IF k = 0 THEN 1 ELSE 2 * Pow2(k - 1)

RECURSIVE Pow2Mod(_)
Pow2Mod(e) == IF e = 0 THEN 1 ELSE (2 * Pow2Mod(e - 1)) % 1000

Binade(n) ==
    CHOOSE j \in 0..10 :
        n * Pow2(j) >= 1000 /\ (j = 0 \/ n * Pow2(j - 1) < 1000)

FloatRem(n) == (n * Pow2Mod(Binade(n) + 52)) % 1000

\* float(n/1000) - n/1000 in units of 2^-62 / 1000, for 0 <= n/1000 <= 1;
\* 100.0 is a double
FloatErr(n) ==
    IF n = 0 \/ n >= 1000
    THEN 0
    ELSE (IF FloatRem(n) < 500 THEN 0 - FloatRem(n) ELSE 1000 - FloatRem(n))
            * Pow2(10 - Binade(n))

\* the comparison of real numbers: ask - bid < limit
ExactSpreadBelow(bid, ask, limit) == ask - bid < limit

\* src/new.py:333, 338, 340: `lowest_ask - highest_bid < spread_limit` on
\* doubles, for ask >= 2 * limit.  The subtraction of two doubles within a
\* factor 2 of each other is exact, so the doubles decide only when the
\* decimal prices are exactly `limit` apart.
SpreadBelow(bid, ask, limit) ==
    IF ask - bid # limit
    THEN ask - bid < limit
    ELSE FloatErr(ask) - FloatErr(bid) < FloatErr(limit)

Log2Floor(c) == CHOOSE m \in 0..6 : Pow2(m) <= c /\ c < Pow2(m + 1)

\* src/new.py:291-292 on a price: int(float * 100), in cents.  A whole
\* number of cents c whose double lies below it gives a product below c,
\* which is rounded to c or to the double before c.
truncate_price_to_2_decimals(n) ==
    LET c == n \div 10
        r == FloatRem(n)
        below == IF Pow2(Log2Floor(c)) = c THEN Log2Floor(c) - 1 ELSE Log2Floor(c)
    IN  IF n % 10 # 0 \/ n = 0 \/ n >= 1000 \/ r = 0 \/ r > 500
        THEN c
        ELSE IF r > 5 * Pow2(Binade(n) + below) THEN c - 1 ELSE c

\* src/new.py:340, "Entry Condition 2"
EntryCondition(bid, ask) ==
    /\ ask >= MIN_BID * 10
    /\ ask <= MAX_BID * 10
    /\ SpreadBelow(bid, ask, SPREAD_LIMIT * 10)

\* what create_buy_order returns for each answer of the exchange,
\* src/new.py:147-168
BuyResponses == {"matched", "canceled", "not_canceled", "no_order_id", "error"}
CreateBuyOrder(resp) == resp \in {"matched", "not_canceled", "no_order_id"}

\* the entry orders of a worker whose run goes on after the filled buy
EntryOrdersFallThrough(order) == <<order, order>>

\* src/new.py:342-347: the buy orders one run of monitor_market submits once
\* the entry condition holds and the cancel went through: the one call of
\* create_buy_order, after which the function returns or falls to its end
EntryOrders(order) == <<order>>

\* src/new.py:331-332: the sides of the book are lists with the best
\* price last; pop() takes it, and an empty side reads as the fixed price
highest_bid(bids) == IF Len(bids) # 0 THEN bids[Len(bids)] ELSE NoBids
lowest_ask(asks) == IF Len(asks) # 0 THEN asks[Len(asks)] ELSE NoAsks

NoBook == <<<<>>, <<>>>>

Nothing ==
    [ran |-> FALSE, bet |-> 0, book |-> NoBook, bid |-> 0, ask |-> 0,
     cancels |-> 0,
     cancelled |-> FALSE, buy |-> <<>>, resp |-> "none", filled |-> FALSE,
     promoted |-> FALSE, sell |-> <<>>]

\* monitor_market from src/new.py:316 on: the item is active and watched,
\* `bet` is current_bet_on_market, order_book is <<bids, asks>>, cancel_ok
\* is what cancel_orders_on_market returns and resp the exchange's answer
\* to the buy.  The result lists the calls the worker made.
MonitorMarket(budget, bet, order_book, cancel_ok, resp) ==
    LET bid == highest_bid(order_book[1])
        ask == lowest_ask(order_book[2])
        base == [Nothing EXCEPT !.ran = TRUE, !.bet = bet]
        read == [base EXCEPT !.book = order_book, !.bid = bid, !.ask = ask]
        available_balance == AvailableBalance(budget, bet)
        limit_price == truncate_price_to_2_decimals(ask)
        size == truncate_to_2_decimals(available_balance, 100 * limit_price)
        order == [price |-> limit_price, size |-> size]
    IN  IF bet >= budget
        THEN [base EXCEPT !.cancels = 1, !.cancelled = cancel_ok]
        ELSE IF ~EntryCondition(bid, ask)
        THEN read
        ELSE IF ~cancel_ok
        THEN [read EXCEPT !.cancels = 1]
        ELSE IF resp = "error"
        THEN [read EXCEPT !.cancels = 1, !.cancelled = TRUE, !.resp = resp]
        ELSE IF ~CreateBuyOrder(resp)
        THEN [read EXCEPT !.cancels = 1, !.cancelled = TRUE,
                          !.buy = EntryOrders(order), !.resp = resp]
        ELSE [read EXCEPT !.cancels = 1, !.cancelled = TRUE,
                          !.buy = EntryOrders(order), !.resp = resp, !.filled = TRUE,
                          !.promoted = TRUE,
                          !.sell = <<[price |-> SELL_TRESHOLD, size |-> size]>>]

\* price * size of an order, in 1/100 cent
Cost(order) == order.price * order.size

\* the inputs of a cycle
Positions == {0, 9000}
Cashes == {0, 50, 1000}
Bets == {0, 300, 6000}
\* order books, prices in 1/10 cent: bids ascending and asks descending, so
\* that the best price of each side is its last element
Books ==
    {<<<<200>>, <<220>>>>, <<<<190, 200>>, <<230, 223>>>>,
     <<<<260>>, <<290>>>>, <<<<540>>, <<550>>>>, <<<<540>>, <<557>>>>,
     <<<<600>>, <<620>>>>, <<<<>>, <<223>>>>, <<<<540>>, <<>>>>, NoBook}

RetryOff ==
    /\ retry_file = "new"
    /\ service = [persistent |-> FALSE, failures |-> 0]
    /\ rpc = "off"
    /\ attempts = 0
    /\ reply = "none"
    /\ slept = 0

TradeOff ==
    /\ total_position_size = 0
    /\ balance_allowance = 0
    /\ portfolio_balance = 0
    /\ cash_balance = 0
    /\ balance_fetched = TRUE
    /\ tpc = "off"
    /\ handled = 0
    /\ spent = 0
    /\ n_buys = 0
    /\ last = Nothing

\* src/new.py:105-113: the balance of the account in cents, and 0 when the
\* call of the exchange raised
get_balance_allowance(balance, fetched) == IF fetched THEN balance ELSE 0

\* src/new.py:354-358: get_portfolio_size returns, and the budget is set
ComputeBudget ==
    /\ UNCHANGED <<watchVars, poolVars, retryVars>>
    /\ tpc = "budget"
    /\ \E position \in Positions, balance \in Cashes, fetched \in BOOLEAN :
          LET cash == get_balance_allowance(balance, fetched)
          IN  /\ total_position_size' = position
              /\ balance_allowance' = cash
              /\ portfolio_balance' = EffectiveBudget(position, cash)
              /\ cash_balance' = 100 * cash
              /\ balance_fetched' = fetched
    /\ tpc' = "sweep"
    /\ handled' = 0
    /\ spent' = 0
    /\ n_buys' = 0
    /\ last' = Nothing

\* src/new.py:116, 139: client.get_trades / client.get_market raise inside
\* get_portfolio_size; nothing catches it and the scheduler thread ends
BudgetFails ==
    /\ UNCHANGED <<watchVars, poolVars, retryVars>>
    /\ tpc = "budget"
    /\ tpc' = "dead"
    /\ UNCHANGED <<total_position_size, balance_allowance, portfolio_balance,
                   cash_balance, balance_fetched, handled, spent, n_buys, last>>

\* one worker runs monitor_market to its end on an active, watched item
WorkerTrades ==
    /\ UNCHANGED <<watchVars, poolVars, retryVars>>
    /\ tpc = "sweep"
    /\ handled < MaxItems
    /\ \E bet \in Bets, order_book \in Books, cancel_ok \in BOOLEAN,
          resp \in BuyResponses :
          LET did == MonitorMarket(portfolio_balance, bet, order_book,
                                   cancel_ok, resp)
          IN  /\ last' = did
              /\ spent' = spent + (IF did.buy = <<>> THEN 0 ELSE Cost(did.buy[1]))
              /\ n_buys' = n_buys + Len(did.buy)
    /\ handled' = handled + 1
    /\ UNCHANGED <<total_position_size, balance_allowance, portfolio_balance,
                   cash_balance, balance_fetched, tpc>>

\* src/new.py:296-312, 323-329: the worker returns before it decides (the
\* market is resolved or no longer watched, or the order book call failed)
WorkerSkips ==
    /\ UNCHANGED <<watchVars, poolVars, retryVars>>
    /\ tpc = "sweep"
    /\ handled < MaxItems
    /\ handled' = handled + 1
    /\ last' = Nothing
    /\ UNCHANGED <<total_position_size, balance_allowance, portfolio_balance,
                   cash_balance, balance_fetched, tpc, spent, n_buys>>

\* src/new.py:376 and 353: the sweep is over, sleep, and the next cycle
NextCycle ==
    /\ UNCHANGED <<watchVars, poolVars, retryVars>>
    /\ tpc = "sweep"
    /\ tpc' = "budget"
    /\ UNCHANGED <<total_position_size, balance_allowance, portfolio_balance,
                   cash_balance, balance_fetched, handled, spent, n_buys, last>>

PoolOff ==
    /\ free_window_size = 0
    /\ spc = "off"
    /\ n_items = 0
    /\ init_size = 0
    /\ index = 0
    /\ sreg = 0
    /\ started = 0
    /\ cycle_base = 0
    /\ wstate = <<>>
    /\ wreg = <<>>

\* a fill history of cost 10 and size 12, in cents and 1/100 share; one
\* with trades none of which is a CONFIRMED fill of the account
CostTenSizeTwelve == <<1000, 1200>>
NoConfirmedFill == <<0, 0>>
FillHistories == {NoTrades, NoConfirmedFill, CostTenSizeTwelve}

\* every market carries the same fills and resolves for the traded side
ExchangeFixed ==
    /\ fills = [m \in Ids |-> CostTenSizeTwelve]
    /\ winner = [m \in Ids |-> TRUE]

WatchOff ==
    /\ ExchangeFixed
    /\ next_item = 0
    /\ recorded = [m \in Ids |-> 0]
    /\ outcome = NoOutcome
    /\ active_markets = <<>>
    /\ heap = <<>>
    /\ promoted = {}
    /\ catalog = [m \in Ids |-> <<2024, 1>>]
    /\ market_state = [m \in Ids |-> "active"]
    /\ copied_markets = <<>>
    /\ todo = [t \in Threads |-> {}]
    /\ pc = [t \in Threads |-> "off"]
    /\ loc = [t \in Threads |-> InitLoc]

InitTrade ==
    /\ RetryOff
    /\ WatchOff
    /\ PoolOff
    /\ total_position_size = 0
    /\ balance_allowance = 0
    /\ portfolio_balance = 0
    /\ cash_balance = 0
    /\ balance_fetched = TRUE
    /\ tpc = "budget"
    /\ handled = 0
    /\ spent = 0
    /\ n_buys = 0
    /\ last = Nothing

NextTrade ==
    \/ ComputeBudget
    \/ BudgetFails
    \/ WorkerTrades
    \/ WorkerSkips
    \/ NextCycle

\* ========================================================= the window
\* `free_window_size += 1` and `-= 1` read the global, compute, and write it
\* back: Python makes no promise that the three happen together, so each is
\* a read step and a write step.
PoolThreads == 1..MaxThreads

Min2(a, b) == IF a < b THEN a ELSE b

\* worker threads that have been started and have not ended
Running(from) ==
    {t \in PoolThreads : t > from /\ wstate[t] \in {"run", "loaded"}}

\* src/new.py:353-361: the next cycle begins; the budget is computed and the
\* watch list copied.  n is len(copied_markets).
BeginCycle ==
    /\ UNCHANGED <<watchVars, tradeVars, retryVars>>
    /\ spc = "begin"
    /\ \E n \in 0..(MaxThreads - started) : n_items' = n
    /\ init_size' = 0
    /\ cycle_base' = started
    /\ spc' = "dispatch"
    /\ UNCHANGED <<free_window_size, index, sreg, started, wstate, wreg>>

\* src/new.py:362-365, one iteration: init_size += 1 and the thread starts
DispatchFirst ==
    /\ UNCHANGED <<watchVars, tradeVars, retryVars>>
    /\ spc = "dispatch"
    /\ IF init_size < Min2(WINDOW_SIZE, n_items)
       THEN /\ init_size' = init_size + 1
            /\ started' = started + 1
            /\ wstate' = [wstate EXCEPT ![started + 1] = "run"]
            /\ UNCHANGED spc
       ELSE /\ spc' = "reset"
            /\ UNCHANGED <<init_size, started, wstate>>
    /\ UNCHANGED <<free_window_size, n_items, index, sreg, cycle_base, wreg>>

\* src/new.py:366-367
ResetWindow ==
    /\ UNCHANGED <<watchVars, tradeVars, retryVars>>
    /\ spc = "reset"
    /\ free_window_size' = 0
    /\ index' = init_size
    /\ spc' = "loop"
    /\ UNCHANGED <<n_items, init_size, sreg, started, cycle_base, wstate, wreg>>

\* src/new.py:368-370: the while test and `if free_window_size > 0`; while
\* the counter is 0 the loop spins and nothing changes
RefillTest ==
    /\ UNCHANGED <<watchVars, tradeVars, retryVars>>
    /\ spc = "loop"
    /\ IF index < n_items
       THEN free_window_size > 0 /\ spc' = "dec_read"
       ELSE spc' = "wait"
    /\ UNCHANGED <<free_window_size, n_items, init_size, index, sreg, started,
                   cycle_base, wstate, wreg>>

\* src/new.py:371, the read of `free_window_size -= 1`
RefillRead ==
    /\ UNCHANGED <<watchVars, tradeVars, retryVars>>
    /\ spc = "dec_read"
    /\ sreg' = free_window_size
    /\ spc' = "dec_write"
    /\ UNCHANGED <<free_window_size, n_items, init_size, index, started, cycle_base,
                   wstate, wreg>>

\* src/new.py:371-372, the write of `free_window_size -= 1`, and index += 1
RefillWrite ==
    /\ UNCHANGED <<watchVars, tradeVars, retryVars>>
    /\ spc = "dec_write"
    /\ free_window_size' = sreg - 1
    /\ index' = index + 1
    /\ sreg' = 0
    /\ spc' = "spawn"
    /\ UNCHANGED <<n_items, init_size, started, cycle_base, wstate, wreg>>

\* src/new.py:373, new_thread.start()
RefillStart ==
    /\ UNCHANGED <<watchVars, tradeVars, retryVars>>
    /\ spc = "spawn"
    /\ started' = started + 1
    /\ wstate' = [wstate EXCEPT ![started + 1] = "run"]
    /\ spc' = "loop"
    /\ UNCHANGED <<free_window_size, n_items, init_size, index, sreg, cycle_base, wreg>>

\* what the final loop waits for, src/new.py:374
WindowFree == free_window_size >= init_size

\* src/new.py:374-375: the final loop ends once the counter has reached
\* init_size
FinalWait ==
    /\ UNCHANGED <<watchVars, tradeVars, retryVars>>
    /\ spc = "wait"
    /\ WindowFree
    /\ spc' = "sleep"
    /\ UNCHANGED <<free_window_size, n_items, init_size, index, sreg, started,
                   cycle_base, wstate, wreg>>

\* src/new.py:376 and 353: time.sleep(BUFFER_TIME), then the next cycle
Sleep ==
    /\ UNCHANGED <<watchVars, tradeVars, retryVars>>
    /\ spc = "sleep"
    /\ spc' = "begin"
    /\ UNCHANGED <<free_window_size, n_items, init_size, index, sreg, started,
                   cycle_base, wstate, wreg>>

\* a worker reaches one of the `free_window_size += 1` of monitor_market
\* (src/new.py:297, 300, 304, 311, 318, 328, 347, 349) and reads the counter
WorkerRead(t) ==
    /\ UNCHANGED <<watchVars, tradeVars, retryVars>>
    /\ wstate[t] = "run"
    /\ wreg' = [wreg EXCEPT ![t] = free_window_size]
    /\ wstate' = [wstate EXCEPT ![t] = "loaded"]
    /\ UNCHANGED <<free_window_size, spc, n_items, init_size, index, sreg,
                   started, cycle_base>>

\* the write of `free_window_size += 1`; the worker returns
WorkerWrite(t) ==
    /\ UNCHANGED <<watchVars, tradeVars, retryVars>>
    /\ wstate[t] = "loaded"
    /\ free_window_size' = wreg[t] + 1
    /\ wreg' = [wreg EXCEPT ![t] = 0]
    /\ wstate' = [wstate EXCEPT ![t] = "done"]
    /\ UNCHANGED <<spc, n_items, init_size, index, sreg, started, cycle_base>>

\* an exception leaves monitor_market before any `free_window_size += 1`:
\* client.get_market in check_resolved (src/new.py:410), record_trade (433),
\* cancel_orders_on_market (317, 341) are called outside any try
WorkerRaises(t) ==
    /\ UNCHANGED <<watchVars, tradeVars, retryVars>>
    /\ wstate[t] = "run"
    /\ wstate' = [wstate EXCEPT ![t] = "failed"]
    /\ UNCHANGED <<free_window_size, spc, n_items, init_size, index, sreg,
                   started, cycle_base, wreg>>

InitPool ==
    /\ RetryOff
    /\ WatchOff
    /\ TradeOff
    /\ free_window_size = 0
    /\ spc = "begin"
    /\ n_items = 0
    /\ init_size = 0
    /\ index = 0
    /\ sreg = 0
    /\ started = 0
    /\ cycle_base = 0
    /\ wstate = [t \in PoolThreads |-> "none"]
    /\ wreg = [t \in PoolThreads |-> 0]

NextPool ==
    \/ BeginCycle
    \/ DispatchFirst
    \/ ResetWindow
    \/ RefillTest
    \/ RefillRead
    \/ RefillWrite
    \/ RefillStart
    \/ FinalWait
    \/ Sleep
    \/ \E t \in PoolThreads : WorkerRead(t)
    \/ \E t \in PoolThreads : WorkerWrite(t)
    \/ \E t \in PoolThreads : WorkerRaises(t)

\* the same without exceptions: every worker reaches a
\* `free_window_size += 1` and returns
NextPoolNormal ==
    \/ BeginCycle
    \/ DispatchFirst
    \/ ResetWindow
    \/ RefillTest
    \/ RefillRead
    \/ RefillWrite
    \/ RefillStart
    \/ FinalWait
    \/ Sleep
    \/ \E t \in PoolThreads : WorkerRead(t)
    \/ \E t \in PoolThreads : WorkerWrite(t)

\* src/new.py:351-376, whatever statement the scheduler thread is at
SchedulerStep ==
    \/ BeginCycle
    \/ DispatchFirst
    \/ ResetWindow
    \/ RefillTest
    \/ RefillRead
    \/ RefillWrite
    \/ RefillStart
    \/ FinalWait
    \/ Sleep

\* every thread that can take a step gets to take it: the scheduler thread
\* (src/new.py:532-534) and each worker thread (src/new.py:363-365, 370-373)
PoolFairness ==
    /\ WF_vars(SchedulerStep)
    /\ \A t \in PoolThreads : WF_vars(WorkerRead(t) \/ WorkerWrite(t))

\* ------------------------------------------------- the calls one at a time
InitWatchCommon ==
    /\ next_item = 0
    /\ recorded = [m \in Ids |-> 0]
    /\ outcome = NoOutcome
    /\ active_markets = <<>>
    /\ heap = <<>>
    /\ promoted = {}
    /\ market_state = [m \in Ids |-> "active"]
    /\ copied_markets = <<>>
    /\ loc = [t \in Threads |-> InitLoc]

\* Market ids are interchangeable, so the catalog lists them by start date.
InitSeq ==
    /\ RetryOff
    /\ InitWatchCommon
    /\ ExchangeFixed
    /\ TradeOff
    /\ PoolOff
    /\ catalog \in {c \in [Ids -> Dates] :
                      \A a, b \in Ids : a < b => ~DateLT(c[b], c[a])}
    /\ todo = [t \in Threads |-> IF t = "seq" THEN Ids ELSE {}]
    /\ pc = [t \in Threads |-> IF t = "seq" THEN "idle" ELSE "off"]

\* add_market (behind its callers' membership test) and add_priority
NextSeq ==
    \/ \E m \in Ids : Discover("seq", m)
    \/ \E m \in Ids : Promote("seq", m)
    \/ CallStep("seq")

\* the same, and the appends of monitor_positions and
\* initialize_markets_with_active_orders
NextSeqAll ==
    \/ \E m \in Ids : Discover("seq", m)
    \/ \E m \in Ids : Promote("seq", m)
    \/ \E m \in Ids : Position("seq", m)
    \/ \E m \in Ids : OpenOrder("seq", m)
    \/ CallStep("seq")
    \/ AppendStep("seq")


\* The four threads of src/new.py:516-530 that put markets on the watch
\* list.  `init` and `new` read different pages of the catalog; a trade and
\* an open order of the account are on market 1.
InitWatch ==
    /\ RetryOff
    /\ InitWatchCommon
    /\ ExchangeFixed
    /\ TradeOff
    /\ PoolOff
    /\ catalog = [m \in Ids |-> <<2024, 1>>]
    /\ todo = [t \in Threads |->
                 CASE t = "init" -> Ids \ {WATCHLIST_LIMIT + 1}
                   [] t = "new" -> {WATCHLIST_LIMIT + 1}
                   [] t \in {"pos", "ord"} -> {1}
                   [] OTHER -> {}]
    /\ pc = [t \in Threads |-> IF t \in Discoverers THEN "idle" ELSE "off"]

NextWatch ==
    \/ \E m \in Ids : Discover("init", m)
    \/ \E m \in Ids : Discover("new", m)
    \/ \E m \in Ids : Position("pos", m)
    \/ \E m \in Ids : OpenOrder("ord", m)
    \/ \E th \in Discoverers : CallStep(th)
    \/ \E th \in Discoverers : AppendStep(th)

\* The scheduler (src/new.py:532-534) and its workers next to the start-up
\* threads: market 1 is on the page `init` reads, the account has a trade
\* and an open order on it, and the exchange resolves it at some moment.
SweepThreads == {"init", "pos", "ord"} \cup Workers

InitSweep ==
    /\ RetryOff
    /\ InitWatchCommon
    /\ ExchangeFixed
    /\ TradeOff
    /\ PoolOff
    /\ catalog = [m \in Ids |-> <<2024, 1>>]
    /\ todo = [t \in Threads |-> IF t \in {"init", "pos", "ord"} THEN {1} ELSE {}]
    /\ pc = [t \in Threads |-> IF t \in SweepThreads THEN "idle" ELSE "off"]

NextSweep ==
    \/ Discover("init", 1)
    \/ Position("pos", 1)
    \/ OpenOrder("ord", 1)
    \/ \E th \in SweepThreads : CallStep(th)
    \/ \E th \in {"pos", "ord"} : AppendStep(th)
    \/ Snapshot
    \/ \E w \in Workers : Dispatch(w)
    \/ \E w \in Workers : WorkerStep(w)
    \/ Resolve(1)

\* A sweep while initialize_current_active_markets is still filling the
\* list: market 1 started last, carries one of the fill histories, and is
\* resolved for either side.
ReconcileThreads == {"init"} \cup Workers

InitReconcile ==
    /\ RetryOff
    /\ InitWatchCommon
    /\ TradeOff
    /\ PoolOff
    /\ catalog = [m \in Ids |-> IF m = 1 THEN <<2024, 2>> ELSE <<2024, 1>>]
    /\ fills \in {f \in [Ids -> FillHistories] :
                     \A m \in Ids \ {1} : f[m] = NoTrades}
    /\ winner \in {v \in [Ids -> BOOLEAN] : \A m \in Ids \ {1} : v[m]}
    /\ todo = [t \in Threads |-> IF t = "init" THEN Ids ELSE {}]
    /\ pc = [t \in Threads |-> IF t \in ReconcileThreads THEN "idle" ELSE "off"]

NextReconcile ==
    \/ \E m \in Ids : Discover("init", m)
    \/ \E th \in ReconcileThreads : CallStep(th)
    \/ Snapshot
    \/ \E w \in Workers : Dispatch(w)
    \/ \E w \in Workers : WorkerStep(w)
    \/ Resolve(1)

SpecReconcile == InitReconcile /\ [][NextReconcile]_vars

SpecSeq == InitSeq /\ [][NextSeq]_vars
SpecWatch == InitWatch /\ [][NextWatch]_vars
SpecSweep == InitSweep /\ [][NextSweep]_vars
SpecSeqAll == InitSeq /\ [][NextSeqAll]_vars

\* ------------------------------------------------------------------ C8
\* the order the claim gives: promoted before un-promoted, and inside one
\* priority class no later start date before an earlier one
InClaimedOrder(a, b) ==
    /\ (a \in promoted) \/ (b \notin promoted)
    /\ ((a \in promoted) = (b \in promoted))
          => ~DateLT(heap[b].start_iso_date, heap[a].start_iso_date)

\* C8: whenever no add_market or add_priority call is in progress,
\* active_markets is ordered by (priority descending, start_iso_date ascending).
C8_SortedByPriorityThenStart ==
    pc["seq"] = "idle" =>
        \A x, y \in 1..Len(active_markets) :
            x < y => InClaimedOrder(active_markets[x], active_markets[y])

\* ------------------------------------------------------------------ C10
\* add_market is about to return (its while condition is false), it was
\* called on a full list, and the new start date was earlier than all of it
AtCapacityEarliestReturn ==
    /\ pc["seq"] = "ev_check"
    /\ loc["seq"].op = "add_market"
    /\ Len(active_markets) <= WATCHLIST_LIMIT
    /\ Len(loc["seq"].pre) = WATCHLIST_LIMIT
    /\ loc["seq"].earliest

\* C10 as stated: the previously earliest item is the one evicted, the new
\* item is in the list afterwards, and the size is WATCHLIST_LIMIT.
C10_NewcomerKept ==
    AtCapacityEarliestReturn =>
        LET ids == IdsOf(active_markets, heap)
        IN  /\ loc["seq"].pre[1] \notin Range(ids)
            /\ loc["seq"].mid \in Range(ids)
            /\ Len(ids) = WATCHLIST_LIMIT

\* C10 amended: the item evicted is the new item itself; the list is the
\* one before the call, and its size is WATCHLIST_LIMIT.
C10_NewcomerEvicted ==
    AtCapacityEarliestReturn =>
        LET ids == IdsOf(active_markets, heap)
        IN  /\ ids = loc["seq"].pre
            /\ loc["seq"].mid \notin Range(ids)
            /\ Len(ids) = WATCHLIST_LIMIT

C10_Witness == AtCapacityEarliestReturn

SpecTrade == InitTrade /\ [][NextTrade]_vars

C7_BudgetClamp ==
    tpc = "sweep" =>
        /\ portfolio_balance <= cash_balance
        /\ \A k \in 1..Len(last.buy) :
              Cost(last.buy[k]) <= portfolio_balance - last.bet

\* a buy order went out on a market that already carries a bet, after the
\* clamp had cut the budget down to the cash balance
C7_Witness ==
    /\ tpc = "sweep"
    /\ last.buy # <<>>
    /\ last.bet > 0
    /\ portfolio_balance = cash_balance
    /\ portfolio_balance < (total_position_size + balance_allowance) * PORTFOLIO_PERCENT
    /\ Cost(last.buy[1]) < portfolio_balance - last.bet

SpecPool == InitPool /\ [][NextPool]_vars

SpecPoolFair == InitPool /\ [][NextPoolNormal]_vars /\ PoolFairness

\* ------------------------------------------------------------------ C2
\* C2: at every moment of a sweep at most WINDOW_SIZE of its worker threads
\* have been started and have not finished.
C2_WindowBound == Cardinality(Running(cycle_base)) <= WINDOW_SIZE

\* ------------------------------------------------------------------ C3
\* C3: when the scheduler has left its final wait loop (it sleeps, or is at
\* the top of the next cycle), every item of the cycle's snapshot has been
\* handed to one worker and every worker thread has finished.
C3_CycleBarrier ==
    spc \in {"sleep", "begin"} =>
        /\ started - cycle_base = n_items
        /\ Running(0) = {}

\* ------------------------------------------------------------------ C1
\* C1: record_trade is called at most once for any condition_id.
C1_RecordedOnce == \A m \in Ids : recorded[m] <= 1

\* ------------------------------------------------------------------ C4
\* C4: active_markets holds at most one entry per condition_id.
C4_NoDuplicateIds ==
    \A a, b \in 1..Len(active_markets) :
        heap[active_markets[a]].condition_id = heap[active_markets[b]].condition_id
            => a = b

\* ------------------------------------------------------------------ C5
\* the positions inside the code that reads or changes active_markets
WatchlistOps ==
    {"am_scan", "am_insert", "am_append", "ev_check", "ev_pop",
     "ap_scan", "ap_pop", "ap_mutate", "ap_append", "prio_append",
     "cr_scan", "cr_pop"}

\* C5: no two threads are inside a watch-list operation at the same time.
C5_MutualExclusion ==
    Cardinality({th \in Threads : pc[th] \in WatchlistOps}) <= 1

\* ------------------------------------------------------------------ C9
\* C9: whenever no thread is inside an insertion, the list holds at most
\* WATCHLIST_LIMIT entries.
C9_CapacityWhenQuiet ==
    (\A th \in Threads : pc[th] \in {"idle", "off"})
        => Len(active_markets) <= WATCHLIST_LIMIT

\* ----------------------------------------------------------------- C11
\* C11: whenever `active_markets.pop(0)` is about to evict a promoted item,
\* no un-promoted item is in active_markets.
C11_EvictsUnpromotedFirst ==
    \A th \in Threads :
        (pc[th] = "ev_pop" /\ active_markets # <<>>
            /\ Head(active_markets) \in promoted)
        => Range(active_markets) \subseteq promoted

\* ----------------------------------------------------------------- C12
\* rule A on the prices of the book as real numbers
RuleA(bid, ask) ==
    /\ ask >= MIN_BID * 10
    /\ ask <= MAX_BID * 10
    /\ ExactSpreadBelow(bid, ask, SPREAD_LIMIT * 10)

\* C12: a worker with available balance cancels the resting orders exactly
\* when minBid <= bestAsk <= maxBid and bestAsk - bestBid < spreadLimit, its
\* buy (submitted once the cancel went through) is at the best ask truncated
\* to cents, and when the condition is false it cancels and buys nothing.
C12_EntryRuleA ==
    (tpc = "sweep" /\ last.ran /\ last.bet < portfolio_balance) =>
        /\ last.cancels = 1 <=> RuleA(last.bid, last.ask)
        /\ last.buy # <<>> =>
              /\ RuleA(last.bid, last.ask)
              /\ last.buy[1].price = last.ask \div 10
        /\ (RuleA(last.bid, last.ask) /\ last.cancelled /\ last.resp # "error")
              => last.buy # <<>>

\* ----------------------------------------------------------------- C13
\* C13: when check_resolved reports an outcome and returns, the market is no
\* longer in active_markets, one outcome was reported by the call, and its
\* pnl is size - cost if the traded side won and -cost otherwise.
C13_ReconciliationOutcome ==
    [][\A w \in Workers :
          (pc[w] = "cr_bet" /\ pc'[w] = "idle" /\ recorded' # recorded) =>
              LET m == loc[w].mid
              IN  /\ m \notin Range(IdsOf(active_markets', heap'))
                  /\ recorded'[m] = recorded[m] + 1
                  /\ outcome'.PnL = IF winner[m]
                                    THEN fills[m][2] - fills[m][1]
                                    ELSE 0 - fills[m][1]]_vars

\* ----------------------------------------------------------------- C18
\* C18: check_resolved never divides by a shares_bought of 0: no worker
\* ends in a ZeroDivisionError.
C18_NoZeroDivision ==
    \A w \in Workers :
        ~(pc[w] = "crashed" /\ loc[w].op = "ZeroDivisionError")

\* ----------------------------------------------------------------- C15
\* C15: with every worker returning normally and every thread scheduled
\* fairly, a sweep that has begun dispatching goes on to start a worker for
\* every item of its snapshot and to leave both wait loops.
C15_SweepCompletes ==
    (spc = "dispatch") ~> (spc = "sleep" /\ started - cycle_base = n_items)

\* ----------------------------------------------------------------- C16
\* C16: a worker whose external call raises still releases its window
\* slot: no worker thread has ended without its `free_window_size += 1`.
C16_SlotReleasedOnFailure == \A t \in PoolThreads : wstate[t] # "failed"

\* ----------------------------------------------------------------- C17
\* C17: when the budget computation of a cycle fails, the scheduler thread
\* lives on to a later cycle, and in the cycle whose balance fetch failed no
\* worker is dispatched, so that nothing is cancelled or bought on a budget
\* of zero.
C17_FailedBudgetSkipsCycle ==
    /\ tpc # "dead"
    /\ (tpc = "sweep" /\ ~balance_fetched) => handled = 0

\* ----------------------------------------------------------------- C19
\* C19: a worker that read a book without bids evaluates the entry rule
\* with a best bid of 0, the lowest price, and submits no buy; one that
\* read a book without asks evaluates it with a best ask of 1.000, the
\* highest price (prices in 1/10 cent).
C19_MissingSideSentinel ==
    (tpc = "sweep" /\ last.ran /\ last.bet < portfolio_balance) =>
        /\ last.book[1] = <<>> => (last.bid = 0 /\ last.buy = <<>>)
        /\ last.book[2] = <<>> => last.ask = 1000

\* ----------------------------------------------------------------- C20
\* C20: a worker calls add_priority and places the sell of the bought size
\* at SELL_TRESHOLD after every buy the exchange matched, and only after
\* such a buy.
C20_PromotionFollowsFill ==
    (tpc = "sweep" /\ last.ran) =>
        /\ last.resp = "matched" =>
              /\ last.promoted
              /\ last.sell = <<[price |-> SELL_TRESHOLD, size |-> last.buy[1].size]>>
        /\ (last.promoted \/ last.sell # <<>>) => last.resp = "matched"

\* ----------------------------------------------------------------- C21
\* minBid <= bestBid < maxBid, prices in 1/10 cent
RuleB(bid) == bid >= MIN_BID * 10 /\ bid < MAX_BID * 10

\* the tick sizes of the exchange, 0.001 and 0.01, in 1/10 cent
TickSizes == {1, 10}

\* C21: a worker with available balance that read a best bid inside
\* [minBid, maxBid) and got no filled buy from the first rule cancels the
\* resting orders of its market and submits a buy one tick above the best
\* bid for available balance / price units.
C21_EntryRuleB ==
    (/\ tpc = "sweep"
     /\ last.ran
     /\ last.bet < portfolio_balance
     /\ last.book[1] # <<>>
     /\ RuleB(last.bid)
     /\ ~last.filled) =>
        /\ last.cancels = 1
        /\ \E k \in 1..Len(last.buy), tick \in TickSizes :
              /\ 10 * last.buy[k].price = last.bid + tick
              /\ last.buy[k].size =
                    truncate_to_2_decimals(portfolio_balance - last.bet,
                                           100 * last.buy[k].price)

\* ----------------------------------------------------------------- C22
\* C22: once the scheduler has taken its copy, no step of another thread
\* changes a field of an item of the copy: as long as copied_markets is
\* the same list, each of its items keeps the values it had.
C22_SnapshotIsolation ==
    [][copied_markets' = copied_markets =>
          \A i \in 1..Len(copied_markets) :
              heap'[copied_markets[i]] = heap[copied_markets[i]]]_vars

\* ================================================= get_polymarket_markets
\* how far the history variable `attempts` counts; it stays at this value
\* while the loop goes on
MaxAttempts == 5
\* the longest outage that ends
MaxFailures == 3

\* src/new.py:102, random.randint(1, 3)
SleepSeconds == 1..3

\* what requests.get / raise_for_status raise: HTTPError, or anything else
\* (a timeout, a refused connection, a body that is not JSON)
Failures == {"HTTPError", "Exception"}

ServiceFails == service.persistent \/ service.failures > 0

\* the caller (src/new.py:256, 383; src/run.py:131, 143) enters the function
RetryCall ==
    /\ UNCHANGED <<watchVars, tradeVars, poolVars>>
    /\ rpc = "call"
    /\ rpc' = "request"
    /\ attempts' = 0
    /\ reply' = "none"
    /\ slept' = 0
    /\ UNCHANGED <<retry_file, service>>

\* src/new.py:93-97, src/run.py:67-71: the request succeeds and the data is
\* returned
RequestSucceeds ==
    /\ UNCHANGED <<watchVars, tradeVars, poolVars>>
    /\ rpc = "request"
    /\ ~ServiceFails
    /\ attempts' = Min2(attempts + 1, MaxAttempts)
    /\ reply' = "data"
    /\ rpc' = "returned"
    /\ UNCHANGED <<retry_file, service, slept>>

\* src/new.py:98-101, src/run.py:72-76: the request raises, both except
\* clauses log, "Retrying..." is logged; src/new.py goes on to its sleep,
\* src/run.py straight to the next iteration of `while True`
RequestFails ==
    /\ UNCHANGED <<watchVars, tradeVars, poolVars>>
    /\ rpc = "request"
    /\ ServiceFails
    /\ attempts' = Min2(attempts + 1, MaxAttempts)
    /\ \E e \in Failures : reply' = e
    /\ service' = IF service.persistent
                  THEN service
                  ELSE [service EXCEPT !.failures = @ - 1]
    /\ rpc' = IF retry_file = "new" THEN "sleep" ELSE "request"
    /\ UNCHANGED <<retry_file, slept>>

\* src/new.py:102, time.sleep(random.randint(1, 3)), and the next iteration
RetrySleep ==
    /\ UNCHANGED <<watchVars, tradeVars, poolVars>>
    /\ rpc = "sleep"
    /\ \E d \in SleepSeconds : slept' = d
    /\ rpc' = "request"
    /\ UNCHANGED <<retry_file, service, attempts, reply>>

\* the caller's loop comes round to its next call (src/new.py:255-256,
\* 382-383; src/run.py:130-131, 142-143)
CallerLoops ==
    /\ UNCHANGED <<watchVars, tradeVars, poolVars>>
    /\ rpc = "returned"
    /\ rpc' = "call"
    /\ UNCHANGED <<retry_file, service, attempts, reply, slept>>

InitRetry ==
    /\ WatchOff
    /\ TradeOff
    /\ PoolOff
    /\ retry_file \in {"new", "run"}
    /\ service \in [persistent : BOOLEAN, failures : 0..MaxFailures]
    /\ rpc = "call"
    /\ attempts = 0
    /\ reply = "none"
    /\ slept = 0

NextRetry ==
    \/ RetryCall
    \/ RequestSucceeds
    \/ RequestFails
    \/ RetrySleep
    \/ CallerLoops

\* the thread that runs the call is scheduled again and again
SpecRetry == InitRetry /\ [][NextRetry]_vars /\ WF_vars(NextRetry)

\* ----------------------------------------------------------------- C23
\* C23: every call of get_polymarket_markets ends: it returns the data or,
\* when the service keeps failing, gives up and raises to its caller.
C23_RetryTerminates ==
    (rpc = "request") ~> (rpc = "returned" \/ rpc = "raised")

\* ----------------------------------------------------------------- C24
\* C24: the element check_resolved removes with pop(i), and the element
\* add_priority takes out with pop(i) to promote it, is the one whose
\* condition_id the thread searched for.
C24_PopsOnlyTarget ==
    [][\A th \in Threads :
          /\ (pc[th] = "cr_pop" /\ pc'[th] = "cr_bet") =>
                heap[active_markets[loc[th].i + 1]].condition_id = loc[th].mid
          /\ (pc[th] = "ap_pop" /\ pc'[th] = "ap_mutate") =>
                heap[active_markets[loc[th].i + 1]].condition_id = loc[th].mid]_vars

\* ----------------------------------------------------------------- C25
\* C25: an item of active_markets that add_priority has promoted, or that
\* was appended as a priority item, has a start_iso_date later than the
\* start date of every market of the catalog, which is the date any
\* un-promoted item carries.
C25_PromotedKeyLatest ==
    \A k \in promoted \cap Range(active_markets) :
        \A m \in Ids : DateLT(catalog[m], heap[k].start_iso_date)

=============================================================================
